---- MODULE Spec2Model ----
(***************************************************************************)
(* Model of src/src/twitch_client.py (class TwitchClient): the shared      *)
(* credential and rate-limit deadline of one client instance and the       *)
(* public calls get_users / get_streams that run concurrently on it as     *)
(* asyncio tasks.  A task runs without interruption between two awaits, so *)
(* every action below is the code between one suspension point and the     *)
(* next: the token exchange (await post), the rate-limit sleep, the data   *)
(* request (await request) and the pause before a 429 retry.               *)
(***************************************************************************)
EXTENDS Integers, Sequences, FiniteSets, TLC

\* ---------------------------------------------------------------- bounds
Calls == {1, 2}          \* asyncio tasks that may share the client
MaxCalls == 2            \* public calls started in one sequential behaviour
MaxOverlap == 2          \* public calls started in one concurrent behaviour
MaxTime == 62            \* the clock stops advancing here
MaxLive == 1             \* public calls started in one fair behaviour
LiveTime == 2000         \* the clock of the fair behaviours: never reached
ShortTime == 5           \* the same, in the behaviours of the plain provider
ResetAhead == 2          \* a Ratelimit-Reset header lies this far ahead
ShortLife == 1           \* a short-lived token: expires_in = 300 + ShortLife
LongLife == 200          \* a long-lived token:  expires_in = 300 + LongLife

\* ------------------------------------------------------ program constants
SafetyMargin == 300      \* timedelta(seconds=data["expires_in"] - 300)
RateLimitBuffer == 1     \* total_seconds() + 1
RetryPause == 1          \* asyncio.sleep(1)
FallbackReset == 60      \* timedelta(seconds=60)
AuthRetryLimit == 1      \* retry_count < 1
RateRetryLimit == 2      \* retry_count < 2

NoToken == 0             \* self._access_token is None
NoTime == -1             \* an Optional[datetime] that is None
Transport == 0           \* httpx.RequestError (timeout, connection error)

\* ------------------------------------------------------------ environment
\* What the provider may answer: every status the code tells apart, with or
\* without a Ratelimit-Reset header, and tokens of a short or a long life.
Statuses == {200, 400, 401, 404, 429, 500}
Headers(t) == {NoTime, t + ResetAhead}
ExpiresIn == {SafetyMargin + ShortLife, SafetyMargin + LongLife}

\* The plain provider: the statuses that take the three branches of
\* _request, always with the header, and short-lived tokens.
PlainStatuses == {200, 401, 429}
PlainHeaders(t) == {t + ResetAhead}
PlainExpiresIn == {SafetyMargin + ShortLife}

\* A filter argument: None, or a list of strings.
NoneArg == [present |-> FALSE, items |-> {}]
Filters == {NoneArg, [present |-> TRUE, items |-> {}],
            [present |-> TRUE, items |-> {"44322889"}]}
OneFilter == {[present |-> TRUE, items |-> {"44322889"}]}

\* A query parameter of the route: None, or a string (Optional[str]).
NoQuery == [present |-> FALSE, text |-> ""]
Queries == {NoQuery, [present |-> TRUE, text |-> ""],
            [present |-> TRUE, text |-> "44322889"]}

\* The decoded body get_users returns: the keys of the dict and the list
\* under "data"; a record is complete when it has every field of UserProfile.
EmptyBody == [keys |-> {}, data |-> <<>>]
Bodies == {EmptyBody,
           [keys |-> {"message"}, data |-> <<>>],
           [keys |-> {"data"}, data |-> <<>>],
           [keys |-> {"data"}, data |-> <<[complete |-> TRUE]>>],
           [keys |-> {"data"}, data |-> <<[complete |-> FALSE]>>]}

VARIABLES
    now,               \* datetime.now(), in seconds
    access_token,      \* self._access_token (NoToken or a token id)
    token_expiry,      \* self._token_expiry (NoTime or a time)
    rate_limit_reset,  \* self._rate_limit_reset (NoTime or a time)
    call,              \* per task: position and locals of its public call
    minted,            \* history: tokens the provider has returned so far
    started,           \* history: public calls started so far
    exchanges,         \* history: token-exchange requests issued so far
    disturbed,         \* history: a 401 was received, a stored token was
                       \* seen past its expiry, or an exchange failed
    overlapped,        \* history: two calls were in progress at once
    pendingReset,      \* history: deadline set in the future, no dispatch since
    lastCall,          \* history: the operation and the arguments of the last
                       \* public call (kept in the behaviours of Args only)
    lastHeader,        \* history: the Ratelimit-Reset header of the last data
                       \* response (NoTime when it carried none)
    lastExchange,      \* history: the token the last completed exchange
                       \* returned, when it completed and its expires_in
    route              \* the /analytics/user handler (behaviours of Route only)

vars == <<now, access_token, token_expiry, rate_limit_reset, call, minted,
          started, exchanges, disturbed, overlapped, pendingReset, lastCall,
          lastHeader, lastExchange, route>>

shared == <<access_token, token_expiry, rate_limit_reset>>

others == <<lastCall, lastHeader, lastExchange, route>>

\* ------------------------------------------------------------- helpers
\* pc: "idle", "exchange" (await post), "sleepRL" (await sleep(wait_time)),
\* "inflight" (await request), "sleepRetry" (await sleep(1)), "done".
\* retry_count, token are the locals of _request; token_exp is the expiry
\* that was stored with the local token; sent, exch, hist count the data
\* requests, the exchanges and the responses of this public call; stale is
\* the expired token that was stored when the call started, if one was;
\* stored is self._access_token at the moment the request in flight was sent.
Idle == [pc |-> "idle", retry_count |-> 0, token |-> NoToken,
         token_exp |-> NoTime, wake |-> NoTime, sent |-> 0, exch |-> 0,
         outcome |-> "none", hist |-> <<>>, stale |-> NoToken,
         stored |-> NoToken]

Active(r) == r.pc \in {"exchange", "sleepRL", "inflight", "sleepRetry"}

\* The call returns or raises: the frame of _request and its locals are gone.
Finish(r, outcome) ==
    [Idle EXCEPT !.pc = "done", !.outcome = outcome, !.sent = r.sent,
                 !.exch = r.exch, !.hist = r.hist,
                 !.stale = r.stale]

TruthyIfGiven(f) == f.present

\* Python truthiness of an Optional[list[str]]: `if user_ids:`
Truthy(f) == f.present /\ f.items # {}

\* get_users: the keys of the params dict
UsersParams(ids, logins) ==
    (IF Truthy(ids) THEN {"id"} ELSE {}) \cup
    (IF Truthy(logins) THEN {"login"} ELSE {})

\* get_streams: the keys of the params dict
StreamsParams(ids, logins) ==
    (IF Truthy(ids) THEN {"user_id"} ELSE {}) \cup
    (IF Truthy(logins) THEN {"user_login"} ELSE {})

\* get_users: `if not params: raise ValueError`
RejectsParams(params) == params = {}

NeedsRefreshExpiredOnly(tk, ex, t) == ex # NoTime /\ t >= ex
NeedsRefreshInverted(tk, ex, t) == tk = NoToken \/ (ex # NoTime /\ t <= ex)
NeedsRefreshAbsentOnly(tk, ex, t) == tk = NoToken

\* _get_valid_access_token: the refresh condition
NeedsRefresh(tk, ex, t) == tk = NoToken \/ (ex # NoTime /\ t >= ex)

\* _request: `if self._rate_limit_reset and datetime.now() < self._rate_limit_reset`
MustWait(reset, t) == reset # NoTime /\ t < reset

\* _request: the time asyncio.sleep(wait_time) returns, now + wait_time
WakeTime(reset, t) == t + ((reset - t) + RateLimitBuffer)

RetryAuthAnyError(status, n) == status >= 400 /\ n < AuthRetryLimit

\* _request: `e.response.status_code == 401 and retry_count < 1`
RetryAuth(status, n) == status = 401 /\ n < AuthRetryLimit

\* _request: `elif e.response.status_code == 429`
RateLimited(status) == status = 429

RetryRateOnce(n) == n < RateRetryLimit - 1
RetryRateThrice(n) == n < RateRetryLimit + 1

\* _request: `if retry_count < 2` inside the 429 branch
RetryRate(n) == n < RateRetryLimit

ExpiryOfNoMargin(t, expires_in) == t + expires_in

\* _get_access_token: datetime.now() + timedelta(seconds=expires_in - 300)
ExpiryOf(t, expires_in) == t + (expires_in - SafetyMargin)

\* _request lines 111-117: the deadline a 429 response installs
RateLimitedReset(hdr, t) == IF hdr # NoTime THEN hdr ELSE t + FallbackReset

HeaderResetKept(hdr, reset) == reset

\* _request lines 94-96: the deadline after any response with a status line
HeaderReset(hdr, reset) == IF hdr # NoTime THEN hdr ELSE reset

\* _request lines 79-92 with the token already in the local `token`:
\* sleep until the deadline has passed, or send the data request at once.
Dispatch(r, tk, tex, reset, t) ==
    IF MustWait(reset, t)
    THEN [r EXCEPT !.pc = "sleepRL", !.token = tk, !.token_exp = tex,
                   !.wake = WakeTime(reset, t)]
    ELSE [r EXCEPT !.pc = "inflight", !.token = tk, !.token_exp = tex,
                   !.sent = @ + 1, !.stored = tk]

\* _request from its first line: _get_valid_access_token either starts an
\* exchange (await post) or returns the stored token, then lines 72-92.
Request(r, tk, ex, reset, t) ==
    IF NeedsRefresh(tk, ex, t)
    THEN [r EXCEPT !.pc = "exchange", !.exch = @ + 1]
    ELSE Dispatch(r, tk, ex, reset, t)

\* -------------------------------------------- main.py: get_twitch_user
\* pc: "idle", "awaiting" (await twitch_client.get_users), "done"; status is
\* the HTTP status of the handler's outcome; outcome, upstream and body are
\* what get_users returned or raised.
RouteIdle == [pc |-> "idle", status |-> 0, outcome |-> "none", upstream |-> 0,
              body |-> EmptyBody]

\* Python truthiness of an Optional[str]: `if id`
TruthyStr(q) == q.present /\ q.text # ""

\* `[id] if id else None`
ListOf(q) == IF TruthyStr(q) THEN [present |-> TRUE, items |-> {q.text}]
             ELSE NoneArg

\* `not twitch_data or not twitch_data.get("data")`
NoRecords(body) ==
    body.keys = {} \/ "data" \notin body.keys \/ body.data = <<>>

Returned == [kind |-> "return", status |-> 200]
Raised(kind, status) == [kind |-> kind, status |-> status]

\* The try block (lines 52-74): what it returns or raises, given how
\* get_users ended.  An exchange that failed with a status raises
\* HTTPStatusError, one that failed in transport raises RequestError.
TryBody(outcome, upstream, body) ==
    IF outcome = "ok"
    THEN IF NoRecords(body) THEN Raised("HTTPException", 404)
         ELSE IF ~body.data[1].complete THEN Raised("KeyError", 0)
         ELSE Returned
    ELSE IF outcome = "HTTPStatusError" THEN Raised("HTTPStatusError", upstream)
    ELSE IF outcome = "TokenError" /\ upstream # Transport
    THEN Raised("HTTPStatusError", upstream)
    ELSE IF outcome = "ValueError" THEN Raised("ValueError", 0)
    ELSE Raised("RequestError", 0)

\* The except clauses (lines 75-101), in their order: HTTPStatusError is
\* mapped by status; every other Exception raised in the try block, the
\* handler's own HTTPException included, becomes 500.
Handle(exc) ==
    IF exc.kind = "return" THEN exc.status
    ELSE IF exc.kind = "HTTPStatusError"
    THEN IF exc.status \in {400, 401, 404, 429} THEN exc.status ELSE 500
    ELSE 500

\* ------------------------------------------------------ history helpers
Expired(tk, ex, t) == tk # NoToken /\ ex # NoTime /\ t >= ex
\* exchange requests a step of task c issues (0 or 1)
Issues(c) == call'[c].exch - call[c].exch
\* the step sends a data request of task c
Sends(c) == call'[c].sent = call[c].sent + 1
\* the step delivers a response (or a transport failure) to task c
Receives(c) == Len(call'[c].hist) = Len(call[c].hist) + 1
Received(c) == call'[c].hist[Len(call'[c].hist)]

\* bookkeeping of a step of task c that does not touch the deadline
Track(c) ==
    /\ exchanges' = exchanges + Issues(c)
    /\ pendingReset' = IF Sends(c) THEN NoTime ELSE pendingReset

Init ==
    /\ now = 0
    /\ access_token = NoToken
    /\ token_expiry = NoTime
    /\ rate_limit_reset = NoTime
    /\ call = [c \in Calls |-> Idle]
    /\ minted = 0
    /\ started = 0
    /\ exchanges = 0
    /\ disturbed = FALSE
    /\ overlapped = FALSE
    /\ pendingReset = NoTime
    /\ lastCall = [op |-> "none", user_ids |-> NoneArg, user_logins |-> NoneArg]
    /\ lastHeader = NoTime
    /\ lastExchange = [token |-> NoToken, at |-> NoTime, expires_in |-> 0]
    /\ route = RouteIdle

\* ------------------------------------------------------------- actions
\* A public call up to its first suspension: the params dict is built, then
\* (get_users only) validated, then _request runs to its first await.  A new
\* call takes the lowest free task.
Enter(c, limit, rejected) ==
    /\ call[c].pc = "idle"
    /\ \A d \in Calls : d < c => call[d].pc # "idle"
    /\ started < limit
    /\ started' = started + 1
    /\ IF rejected
       THEN /\ call' = [call EXCEPT ![c] = Finish(Idle, "ValueError")]
            /\ UNCHANGED overlapped
       ELSE /\ call' = [call EXCEPT ![c] =
                           Request([Idle EXCEPT !.stale =
                                       IF Expired(access_token, token_expiry, now)
                                       THEN access_token ELSE NoToken],
                                   access_token, token_expiry,
                                   rate_limit_reset, now)]
            /\ overlapped' =
                   (overlapped \/ \E d \in Calls \ {c} : Active(call[d]))
    /\ Track(c)
    /\ UNCHANGED <<now, shared, minted, disturbed, lastHeader, lastExchange>>

GetUsers(c, limit, filters, record) ==
    \E ids \in filters, logins \in filters :
        /\ Enter(c, limit, RejectsParams(UsersParams(ids, logins)))
        /\ lastCall' = IF record
                       THEN [op |-> "get_users", user_ids |-> ids,
                             user_logins |-> logins]
                       ELSE lastCall
        /\ UNCHANGED route

GetStreams(c, limit, filters, record) ==
    \E ids \in filters, logins \in filters :
        /\ StreamsParams(ids, logins) \subseteq {"user_id", "user_login"}
        /\ Enter(c, limit, FALSE)
        /\ lastCall' = IF record
                       THEN [op |-> "get_streams", user_ids |-> ids,
                             user_logins |-> logins]
                       ELSE lastCall
        /\ UNCHANGED route

\* _get_access_token resumes with a 2xx response: token and expiry are
\* stored, _get_valid_access_token returns the stored token, and _request
\* goes on to lines 72-92 without suspending.
ExchangeOk(c, lives) ==
    /\ call[c].pc = "exchange"
    /\ \E e \in lives :
        LET tk == minted + 1
            ex == ExpiryOf(now, e)
        IN /\ minted' = tk
           /\ access_token' = tk
           /\ token_expiry' = ex
           /\ call' = [call EXCEPT ![c] =
                          Dispatch(call[c], tk, ex, rate_limit_reset, now)]
           /\ disturbed' = (disturbed \/ Expired(tk, ex, now))
           /\ lastExchange' = [token |-> tk, at |-> now, expires_in |-> e]
    /\ Track(c)
    /\ UNCHANGED <<lastCall, lastHeader, route, now, rate_limit_reset, started,
                   overlapped>>

ExchangeFailDiscards(c) ==
    /\ call[c].pc = "exchange"
    /\ call' = [call EXCEPT ![c] = Finish(call[c], "TokenError")]
    /\ access_token' = NoToken
    /\ disturbed' = TRUE
    /\ Track(c)
    /\ UNCHANGED <<others, now, token_expiry, rate_limit_reset, minted,
                   started, overlapped>>

\* _get_access_token: the post fails, or raise_for_status raises; the error
\* leaves _request before line 72 and reaches the caller.
ExchangeFail(c) ==
    /\ call[c].pc = "exchange"
    /\ call' = [call EXCEPT ![c] = Finish(call[c], "TokenError")]
    /\ disturbed' = TRUE
    /\ Track(c)
    /\ UNCHANGED <<others, now, shared, minted, started, overlapped>>

\* asyncio.sleep(wait_time) returns: the request is sent with the token
\* taken before the sleep.
WakeRateLimit(c) ==
    /\ call[c].pc = "sleepRL"
    /\ now >= call[c].wake
    /\ call' = [call EXCEPT ![c].pc = "inflight", ![c].sent = @ + 1,
                            ![c].stored = access_token]
    /\ Track(c)
    /\ UNCHANGED <<others, now, shared, minted, started, disturbed, overlapped>>

\* The data request returns a response with a status line (lines 94-125).
Respond(c, statuses, headers) ==
    /\ call[c].pc = "inflight"
    /\ \E status \in statuses, hdr \in headers :
        LET r == [call[c] EXCEPT !.hist = Append(@, status)]
            reset == HeaderReset(hdr, rate_limit_reset)
        IN /\ lastHeader' = hdr
           /\ IF status = 200
              THEN /\ call' = [call EXCEPT ![c] = Finish(r, "ok")]
                   /\ rate_limit_reset' = reset
                   /\ UNCHANGED access_token
              ELSE IF RetryAuth(status, r.retry_count)
              THEN /\ access_token' = NoToken
                   /\ rate_limit_reset' = reset
                   /\ call' = [call EXCEPT ![c] =
                                  Request([r EXCEPT !.retry_count = @ + 1],
                                          NoToken, token_expiry, reset, now)]
              ELSE IF RateLimited(status)
              THEN /\ rate_limit_reset' = RateLimitedReset(hdr, now)
                   /\ UNCHANGED access_token
                   /\ call' = [call EXCEPT ![c] =
                                  IF RetryRate(r.retry_count)
                                  THEN [r EXCEPT !.pc = "sleepRetry",
                                                 !.wake = now + RetryPause]
                                  ELSE Finish(r, "HTTPStatusError")]
              ELSE /\ call' = [call EXCEPT ![c] = Finish(r, "HTTPStatusError")]
                   /\ rate_limit_reset' = reset
                   /\ UNCHANGED access_token
    /\ disturbed' = (disturbed \/ Received(c) = 401)
    /\ exchanges' = exchanges + Issues(c)
    /\ pendingReset' = IF rate_limit_reset' = rate_limit_reset THEN pendingReset
                       ELSE IF rate_limit_reset' > now THEN rate_limit_reset'
                       ELSE NoTime
    /\ UNCHANGED <<lastCall, lastExchange, route, now, token_expiry, minted,
                   started, overlapped>>

\* The data request raises httpx.RequestError (timeout=10, connection error):
\* not an HTTPStatusError, so no handler of _request catches it.
RespondTransport(c) ==
    /\ call[c].pc = "inflight"
    /\ call' = [call EXCEPT ![c] =
                   Finish([call[c] EXCEPT !.hist = Append(@, Transport)],
                          "TransportError")]
    /\ Track(c)
    /\ UNCHANGED <<others, now, shared, minted, started, disturbed, overlapped>>

\* asyncio.sleep(1) returns: _request is entered again with retry_count + 1.
WakeRetry(c) ==
    /\ call[c].pc = "sleepRetry"
    /\ now >= call[c].wake
    /\ call' = [call EXCEPT ![c] =
                   Request([call[c] EXCEPT !.retry_count = @ + 1],
                           access_token, token_expiry, rate_limit_reset, now)]
    /\ Track(c)
    /\ UNCHANGED <<others, now, shared, minted, started, disturbed, overlapped>>

\* The caller has taken the result or the error; the task is free again.
Return(c) ==
    /\ call[c].pc = "done"
    /\ call' = [call EXCEPT ![c] = Idle]
    /\ UNCHANGED <<others, now, shared, minted, started, exchanges, disturbed,
                   overlapped, pendingReset>>

\* GET /analytics/user up to its first suspension: 400 when neither
\* parameter is given, else get_users runs to its first await.
GetTwitchUser(limit) ==
    /\ route.pc = "idle"
    /\ \E id \in Queries, login \in Queries :
        IF ~TruthyStr(id) /\ ~TruthyStr(login)
        THEN /\ started < limit
             /\ started' = started + 1
             /\ route' = [RouteIdle EXCEPT !.pc = "done", !.status = 400]
             /\ UNCHANGED <<now, shared, call, minted, exchanges, disturbed,
                            overlapped, pendingReset, lastHeader, lastExchange>>
        ELSE /\ Enter(1, limit,
                      RejectsParams(UsersParams(ListOf(id), ListOf(login))))
             /\ route' = [RouteIdle EXCEPT !.pc = "awaiting"]
    /\ UNCHANGED lastCall

\* get_users has returned or raised: the rest of the try block and the
\* except clauses run without suspending.
RouteResume ==
    /\ route.pc = "awaiting"
    /\ call[1].pc = "done"
    /\ \E body \in Bodies, failure \in (Statuses \ {200}) \cup {Transport} :
        LET outcome == call[1].outcome
            upstream == IF outcome = "TokenError" THEN failure
                        ELSE IF call[1].hist = <<>> THEN 0
                        ELSE call[1].hist[Len(call[1].hist)]
            got == IF outcome = "ok" THEN body ELSE EmptyBody
        IN route' = [pc |-> "done",
                     status |-> Handle(TryBody(outcome, upstream, got)),
                     outcome |-> outcome, upstream |-> upstream, body |-> got]
    /\ call' = [call EXCEPT ![1] = Idle]
    /\ UNCHANGED <<now, shared, minted, started, exchanges, disturbed,
                   overlapped, pendingReset, lastCall, lastHeader, lastExchange>>

\* The framework has sent the handler's response.
RouteRespond ==
    /\ route.pc = "done"
    /\ route' = RouteIdle
    /\ UNCHANGED <<now, shared, call, minted, started, exchanges, disturbed,
                   overlapped, pendingReset, lastCall, lastHeader, lastExchange>>

\* The clock moves on to a moment at which some comparison of the code
\* changes its answer: a wake-up time, the expiry or the deadline.  A sleeper
\* may be passed over, so a sleep may return late.
Deadlines ==
    {call[c].wake : c \in {d \in Calls : call[d].pc \in {"sleepRL", "sleepRetry"}}}
        \cup {token_expiry, rate_limit_reset}

Advance(limit) ==
    /\ \E t \in {d \in Deadlines : now < d /\ d <= limit} :
        /\ now' = t
        /\ disturbed' = (disturbed \/ Expired(access_token, token_expiry, t))
    /\ UNCHANGED <<others, shared, call, minted, started, exchanges, overlapped,
                   pendingReset>>

\* Sequential behaviours: one task, one public call after the other, against
\* the full provider.
Next ==
    \/ GetUsers(1, MaxCalls, Filters, FALSE)
    \/ GetStreams(1, MaxCalls, Filters, FALSE)
    \/ ExchangeOk(1, ExpiresIn)
    \/ ExchangeFail(1)
    \/ WakeRateLimit(1)
    \/ Respond(1, Statuses, Headers(now))
    \/ RespondTransport(1)
    \/ WakeRetry(1)
    \/ Return(1)
    \/ Advance(MaxTime)

Spec == Init /\ [][Next]_vars

\* Concurrent behaviours: the tasks of Calls overlap on the one client,
\* against the plain provider.
OverlapNext ==
    \/ \E c \in Calls : GetUsers(c, MaxOverlap, OneFilter, FALSE)
    \/ \E c \in Calls : GetStreams(c, MaxOverlap, OneFilter, FALSE)
    \/ \E c \in Calls : ExchangeOk(c, PlainExpiresIn)
    \/ \E c \in Calls : ExchangeFail(c)
    \/ \E c \in Calls : WakeRateLimit(c)
    \/ \E c \in Calls : Respond(c, PlainStatuses, PlainHeaders(now))
    \/ \E c \in Calls : RespondTransport(c)
    \/ \E c \in Calls : WakeRetry(c)
    \/ \E c \in Calls : Return(c)
    \/ Advance(ShortTime)

Overlap == Init /\ [][OverlapNext]_vars

\* Sequential behaviours that keep the arguments of get_users, against the
\* plain provider.
ArgsNext ==
    \/ GetUsers(1, MaxCalls, Filters, TRUE)
    \/ GetStreams(1, MaxCalls, OneFilter, TRUE)
    \/ ExchangeOk(1, PlainExpiresIn)
    \/ ExchangeFail(1)
    \/ WakeRateLimit(1)
    \/ Respond(1, PlainStatuses, PlainHeaders(now))
    \/ RespondTransport(1)
    \/ WakeRetry(1)
    \/ Return(1)
    \/ Advance(ShortTime)

Args == Init /\ [][ArgsNext]_vars

\* Fair behaviours: sequential ones with short-lived tokens and a clock that
\* does not stop, in which every request that was sent is answered (or fails in transport),
\* time passes and every sleep returns.
LiveNext ==
    \/ GetUsers(1, MaxLive, OneFilter, FALSE)
    \/ GetStreams(1, MaxLive, OneFilter, FALSE)
    \/ ExchangeOk(1, PlainExpiresIn)
    \/ ExchangeFail(1)
    \/ WakeRateLimit(1)
    \/ Respond(1, Statuses, Headers(now))
    \/ RespondTransport(1)
    \/ WakeRetry(1)
    \/ Return(1)
    \/ Advance(LiveTime)

Live ==
    /\ Init /\ [][LiveNext]_vars
    /\ WF_vars(ExchangeOk(1, PlainExpiresIn) \/ ExchangeFail(1))
    /\ WF_vars(Respond(1, Statuses, Headers(now)) \/ RespondTransport(1))
    /\ WF_vars(WakeRateLimit(1))
    /\ WF_vars(WakeRetry(1))
    /\ WF_vars(Advance(LiveTime))

\* The route handler on top of the client: one request after the other.
RouteNext ==
    \/ GetTwitchUser(MaxCalls)
    \/ ExchangeOk(1, PlainExpiresIn)
    \/ ExchangeFail(1)
    \/ WakeRateLimit(1)
    \/ Respond(1, Statuses, PlainHeaders(now))
    \/ RespondTransport(1)
    \/ WakeRetry(1)
    \/ RouteResume
    \/ RouteRespond
    \/ Advance(ShortTime)

Route == Init /\ [][RouteNext]_vars

\* ---------------------------------------------------------------- claims
Count(h, x) == Cardinality({i \in 1..Len(h) : h[i] = x})
AllAre(h, x) == \A i \in 1..Len(h) : h[i] = x
Failed(r) == r.pc = "done" /\ r.outcome = "HTTPStatusError"
LastOf(h) == h[Len(h)]

\* C1: whenever a data request of a public call receives 401 and the call
\* has not received a 401 before, the stored credential is discarded and the
\* call goes on to a new token exchange in order to retry; when the call has
\* received a 401 before, it fails with that error and sends nothing more.
C1_ReactiveRefresh ==
    [][\A c \in Calls :
        (Receives(c) /\ Received(c) = 401) =>
            IF Count(call[c].hist, 401) = 0
            THEN /\ access_token' = NoToken
                 /\ call'[c].pc = "exchange"
                 /\ call'[c].exch = call[c].exch + 1
            ELSE /\ Failed(call'[c])
                 /\ call'[c].sent = call[c].sent]_vars

\* C2: a public call whose every data request receives 429 never sends a
\* fourth data request; it fails with the 429 exactly when the third request
\* has been answered, and until then it is on its way to the next request
\* (unless a token exchange it needed failed).
C2_RateLimitRetryCap ==
    \A c \in Calls :
        LET r == call[c] IN
        (Len(r.hist) >= 1 /\ AllAre(r.hist, 429)) =>
            /\ r.sent <= 3
            /\ Len(r.hist) = 3 => (Failed(r) /\ r.sent = 3)
            /\ Len(r.hist) < 3 =>
                  \/ Active(r)
                  \/ r.pc = "done" /\ r.outcome = "TokenError"

C2_Witness ==
    \E c \in Calls :
        Failed(call[c]) /\ call[c].hist = <<429, 429, 429>> /\ call[c].sent = 3

\* C3: the retry budgets are independent: a call fails with a 401 only when
\* it has used its one authentication retry (it received two 401s), and it
\* fails with a 429 only when it has used its two rate-limit retries (it
\* received three 429s).
C3_IndependentBudgets ==
    \A c \in Calls :
        Failed(call[c]) =>
            /\ LastOf(call[c].hist) = 401 => Count(call[c].hist, 401) = 2
            /\ LastOf(call[c].hist) = 429 => Count(call[c].hist, 429) = 3

\* C4: a data request is never sent carrying a credential that is already
\* expired at the moment of dispatch (now >= the expiry stored with it).
C4_NeverSendsExpired ==
    [][\A c \in Calls : Sends(c) => now < call'[c].token_exp]_vars

\* C5: once the deadline was set to a time T in the future, the next data
\* request any call sends does not begin before T, also when the deadline
\* was set while the sending call was suspended.  (The claim asks for T plus
\* the one-second buffer; this is the weaker half of it.)
C5_RateLimitWait ==
    [][\A c \in Calls :
        (Sends(c) /\ pendingReset # NoTime) => now >= pendingReset]_vars

\* C6: within one token's validity window (no stored token seen past its
\* expiry, no 401 received, no exchange failed) at most one token exchange
\* is issued in total, also when the calls overlap.
C6_TokenReuse == ~disturbed => exchanges <= 1

\* C6 as amended: the same, for calls that do not overlap in time.
C6_TokenReuseSequential == (~disturbed /\ ~overlapped) => exchanges <= 1

C6_Witness ==
    /\ ~disturbed /\ ~overlapped /\ started = 2 /\ exchanges = 1
    /\ \E c \in Calls :
        call[c].pc = "done" /\ call[c].outcome = "ok" /\ call[c].exch = 0

\* C7: a call that starts while the stored token is expired performs exactly
\* one token exchange as long as it receives no 401.
C7_ProactiveRefreshOnce ==
    \A c \in Calls :
        (call[c].stale # NoToken /\ Count(call[c].hist, 401) = 0) =>
            call[c].exch = 1

\* C7 as amended: a call that starts while the stored token is expired has
\* performed exactly one token exchange until its first data request is
\* answered; the request is not sent while that exchange is pending, and it
\* carries a token other than the expired one.
C7_ProactiveRefreshFirst ==
    \A c \in Calls :
        (call[c].stale # NoToken /\ call[c].hist = <<>>) =>
            /\ call[c].exch = 1
            /\ call[c].pc = "exchange" => call[c].sent = 0
            /\ call[c].sent >= 1 =>
                  call[c].token \notin {NoToken, call[c].stale}

C7_Witness ==
    \E c \in Calls :
        /\ call[c].stale # NoToken /\ call[c].hist = <<>>
        /\ call[c].pc = "inflight" /\ call[c].sent = 1 /\ call[c].exch = 1
        /\ call[c].token = access_token /\ now < token_expiry

\* C8: after every 401 response to a data request, the one surfaced to the
\* caller included, the stored credential is absent.
C8_DiscardOnEvery401 ==
    [][\A c \in Calls :
        (Receives(c) /\ Received(c) = 401) => access_token' = NoToken]_vars

\* C9: get_users with both filters empty or absent fails with ValueError,
\* issues no token exchange and no data request and leaves the credential
\* and the deadline as they were; with a non-empty filter it goes on to its
\* request (an exchange, a rate-limit wait or the data request itself).
EmptyOrAbsent(f) == ~f.present \/ f.items = {}

C9_ArgumentValidation ==
    [][\A c \in Calls :
        (call[c].pc = "idle" /\ call'[c].pc # "idle"
            /\ lastCall'.op = "get_users") =>
            IF EmptyOrAbsent(lastCall'.user_ids)
                  /\ EmptyOrAbsent(lastCall'.user_logins)
            THEN /\ call'[c].pc = "done"
                 /\ call'[c].outcome = "ValueError"
                 /\ call'[c].sent = 0 /\ call'[c].exch = 0
                 /\ exchanges' = exchanges
                 /\ UNCHANGED shared
            ELSE /\ Active(call'[c])
                 /\ call'[c].exch + call'[c].sent = 1
                    \/ call'[c].pc = "sleepRL"]_vars

C9_Witness ==
    /\ access_token # NoToken
    /\ lastCall.op = "get_users"
    /\ lastCall.user_ids = [present |-> TRUE, items |-> {}]
    /\ \E c \in Calls : call[c].pc = "done" /\ call[c].outcome = "ValueError"

\* C10: a data request answered with 400, 404, another status that is not
\* 2xx, 401 or 429, or failing in transport ends the call at once with that
\* error: no retry and no token exchange, the stored credential unchanged.
NonRetryable == (Statuses \cup {Transport}) \ {200, 401, 429}

C10_NonRetryable ==
    [][\A c \in Calls :
        (Receives(c) /\ Received(c) \in NonRetryable) =>
            /\ call'[c].pc = "done"
            /\ call'[c].outcome = IF Received(c) = Transport
                                  THEN "TransportError"
                                  ELSE "HTTPStatusError"
            /\ call'[c].sent = call[c].sent
            /\ call'[c].exch = call[c].exch
            /\ exchanges' = exchanges
            /\ UNCHANGED <<access_token, token_expiry>>]_vars

C10_Witness ==
    \E c \in Calls :
        /\ call[c].pc = "done" /\ call[c].outcome = "HTTPStatusError"
        /\ LastOf(call[c].hist) = 404 /\ call[c].sent = 1
        /\ access_token # NoToken

\* C11: a data response that carries a Ratelimit-Reset header, whatever its
\* status, leaves the deadline equal to the header's time; a 429 without
\* the header leaves it at now + 60 s; so does the last 429 of a call.
C11_DeadlineUpdate ==
    [][\A c \in Calls :
        (Receives(c) /\ Received(c) # Transport) =>
            /\ lastHeader' # NoTime => rate_limit_reset' = lastHeader'
            /\ (lastHeader' = NoTime /\ Received(c) = 429) =>
                  rate_limit_reset' = now + FallbackReset]_vars

C11_Witness ==
    \E c \in Calls :
        /\ Failed(call[c]) /\ Len(call[c].hist) = 3
        /\ LastOf(call[c].hist) = 429
        /\ lastHeader = NoTime /\ rate_limit_reset = now + FallbackReset

\* C12: a public call never sends more than 3 data requests nor issues more
\* than 3 token exchanges, and, every request being answered and every sleep
\* returning, a call in progress eventually ends with a result or an error.
C12_BoundedTermination ==
    /\ [](\A c \in Calls : call[c].sent <= 3 /\ call[c].exch <= 3)
    /\ \A c \in Calls : Active(call[c]) ~> call[c].pc = "done"

C12_Witness ==
    \E c \in Calls :
        call[c].pc = "done" /\ call[c].sent = 3 /\ call[c].exch = 3

\* The clock bound of the fair behaviours binds nothing: no deadline and no
\* wake-up time lies beyond it.
LiveTimeSuffices == \A d \in Deadlines : d <= LiveTime

\* C13: a token exchange that fails, on the first attempt or on a retry,
\* ends the call at once with that error: no data request and no further
\* exchange follow, and the stored token and expiry are left as they were.
C13_ExchangeFailure ==
    [][\A c \in Calls :
        (call[c].pc = "exchange" /\ call'[c].pc # "exchange"
            /\ minted' = minted) =>
            /\ call'[c].pc = "done"
            /\ call'[c].outcome = "TokenError"
            /\ call'[c].sent = call[c].sent
            /\ call'[c].exch = call[c].exch
            /\ exchanges' = exchanges
            /\ UNCHANGED <<access_token, token_expiry>>]_vars

C13_Witness ==
    \E c \in Calls :
        /\ call[c].pc = "done" /\ call[c].outcome = "TokenError"
        /\ call[c].hist = <<401>> /\ call[c].sent = 1 /\ call[c].exch = 2
        /\ access_token = NoToken /\ token_expiry # NoTime

\* C14: a stored token is the one the last completed exchange returned, and
\* the stored expiry is the one that same exchange computed (its completion
\* time plus expires_in less the margin), also when the exchanges of
\* overlapping calls complete one after the other.
C14_LastWriterWins ==
    /\ access_token \in {NoToken, lastExchange.token}
    /\ lastExchange.token # NoToken =>
          token_expiry =
              lastExchange.at + (lastExchange.expires_in - SafetyMargin)

C14_Witness ==
    \E c \in Calls, d \in Calls :
        /\ call[c].pc = "inflight" /\ call[d].pc = "inflight"
        /\ call[c].exch = 1 /\ call[d].exch = 1
        /\ call[c].hist = <<>> /\ call[d].hist = <<>>
        /\ call[c].token # call[d].token
        /\ call[c].token_exp # call[d].token_exp
        /\ access_token = call[d].token /\ token_expiry = call[d].token_exp
        /\ call[d].token = lastExchange.token

\* C15: every data request that is sent carries a token some completed
\* exchange returned, never an absent one, also when the stored token was
\* discarded between the moment the call took it and the moment it sends.
C15_SendsRealToken ==
    [][\A c \in Calls : Sends(c) => call'[c].token \in 1..minted']_vars

C15_Witness ==
    \E c \in Calls :
        /\ call[c].pc = "inflight" /\ call[c].stored = NoToken
        /\ call[c].token \in 1..minted

\* C16: a 401 answering a request sent with token T leaves a stored token
\* other than T (installed by another call in the meantime) in place.
C16_StaleUnauthorized ==
    [][\A c \in Calls :
        (Receives(c) /\ Received(c) = 401 /\ access_token # NoToken
            /\ access_token # call[c].token) =>
            access_token' = access_token]_vars

\* C17: when get_users returns a body without records, the outcome of the
\* /analytics/user handler is 404.
C17_EmptyResultNotFound ==
    (route.pc = "done" /\ route.outcome = "ok" /\ NoRecords(route.body)) =>
        route.status = 404

====
